------------------------------ MODULE Spec2Model ------------------------------
(***************************************************************************)
(* Model of src/llm/models.py: the catalog of LLM model descriptors        *)
(* (AVAILABLE_MODELS, LLM_ORDER, get_model_info and the LLMModel methods)  *)
(* and the client factory get_model, which reads the provider's API key    *)
(* from the process environment.                                           *)
(*                                                                         *)
(* Python values are modelled as records carrying their type.  A str that  *)
(* the code inspects character by character (model_name, an API key) is a  *)
(* sequence of one-character strings, so that startswith, ==, and          *)
(* truthiness are computed as Python computes them.                        *)
(***************************************************************************)
EXTENDS Naturals, Sequences, FiniteSets, TLC

VARIABLES AVAILABLE_MODELS, LLM_ORDER, environ, result

vars == <<AVAILABLE_MODELS, LLM_ORDER, environ, result>>

----------------------------------------------------------------------------
(* Bounds of the exploration.                                              *)

\* length of the non-empty API key value put into the environment
KeyLen == 1

\* how many characters the name variants drop from / add to a catalog name
MaxTrim == 1

----------------------------------------------------------------------------
(* Python values.                                                          *)

None == [type |-> "NoneType"]

\* a str whose characters the code looks at
Str(chars) == [type |-> "str", chars |-> chars]

\* a str passed where a ModelProvider is expected; only compared with ==
PlainStr(s) == [type |-> "str", s |-> s]

\* class ModelProvider(str, Enum): member name |-> value
ModelProvider ==
  [ANTHROPIC  |-> "Anthropic",
   DEEPSEEK   |-> "DeepSeek",
   GEMINI     |-> "Gemini",
   GROQ       |-> "Groq",
   OPENAI     |-> "OpenAI",
   OPENROUTER |-> "OpenRouter"]

MemberNames == DOMAIN ModelProvider

\* the enum member ModelProvider.<name>
Member(name) == [type |-> "ModelProvider", name |-> name]

\* the str content of a member (its value) or of a plain str
StrOf(x) == IF x.type = "ModelProvider" THEN ModelProvider[x.name] ELSE x.s

\* x == y where y is a ModelProvider member: ModelProvider mixes in str, so
\* the comparison is str.__eq__ on the member's value
PyEq(x, y) ==
  /\ x.type \in {"ModelProvider", "str"}
  /\ y.type \in {"ModelProvider", "str"}
  /\ StrOf(x) = StrOf(y)

\* prefix in s: the prefix occurs anywhere in s
RECURSIVE contains(_, _)
contains(s, prefix) ==
  IF Len(s) < Len(prefix) THEN FALSE
  ELSE SubSeq(s, 1, Len(prefix)) = prefix \/ contains(Tail(s), prefix)

\* s.startswith(prefix) on character sequences
RECURSIVE startswith(_, _)
startswith(s, prefix) ==
  IF prefix = <<>> THEN TRUE
  ELSE IF s = <<>> THEN FALSE
  ELSE Head(s) = Head(prefix) /\ startswith(Tail(s), Tail(prefix))

----------------------------------------------------------------------------
(* class LLMModel                                                          *)

LLMModel(display_name, model_name, provider) ==
  [type |-> "LLMModel", display_name |-> display_name,
   model_name |-> model_name, provider |-> provider]

\* the member's name in place of its value
to_choice_tuple_member_name(self) ==
  <<self.display_name, self.model_name, self.provider.name>>

to_choice_tuple(self) ==
  <<self.display_name, self.model_name, ModelProvider[self.provider.name]>>

is_deepseek(self) ==
  startswith(self.model_name, <<"d","e","e","p","s","e","e","k">>)

\* "gemini" in self.model_name
is_gemini_substring(self) ==
  contains(self.model_name, <<"g","e","m","i","n","i">>)

is_gemini(self) ==
  startswith(self.model_name, <<"g","e","m","i","n","i">>)

has_json_mode(self) == (~ is_deepseek(self)) /\ (~ is_gemini(self))

----------------------------------------------------------------------------
(* The catalog.                                                            *)

\* the entries of the AVAILABLE_MODELS literal served by the vendors' own APIs
DirectModels ==
  <<
     LLMModel("[anthropic] claude-3.5-haiku",
              (* "claude-3-5-haiku-latest" *)
              <<"c","l","a","u","d","e","-","3","-","5","-","h","a","i","k","u","-","l","a","t","e","s","t">>,
              Member("ANTHROPIC")),
     LLMModel("[anthropic] claude-3.5-sonnet",
              (* "claude-3-5-sonnet-latest" *)
              <<"c","l","a","u","d","e","-","3","-","5","-","s","o","n","n","e","t","-","l","a","t","e","s","t">>,
              Member("ANTHROPIC")),
     LLMModel("[anthropic] claude-3.7-sonnet",
              (* "claude-3-7-sonnet-latest" *)
              <<"c","l","a","u","d","e","-","3","-","7","-","s","o","n","n","e","t","-","l","a","t","e","s","t">>,
              Member("ANTHROPIC")),
     LLMModel("[deepseek] deepseek-r1",
              (* "deepseek-reasoner" *)
              <<"d","e","e","p","s","e","e","k","-","r","e","a","s","o","n","e","r">>,
              Member("DEEPSEEK")),
     LLMModel("[deepseek] deepseek-v3",
              (* "deepseek-chat" *)
              <<"d","e","e","p","s","e","e","k","-","c","h","a","t">>,
              Member("DEEPSEEK")),
     LLMModel("[gemini] gemini-2.0-flash",
              (* "gemini-2.0-flash" *)
              <<"g","e","m","i","n","i","-","2",".","0","-","f","l","a","s","h">>,
              Member("GEMINI")),
     LLMModel("[gemini] gemini-2.5-pro",
              (* "gemini-2.5-pro-exp-03-25" *)
              <<"g","e","m","i","n","i","-","2",".","5","-","p","r","o","-","e","x","p","-","0","3","-","2","5">>,
              Member("GEMINI")),
     LLMModel("[groq] llama-3.3 70b",
              (* "llama-3.3-70b-versatile" *)
              <<"l","l","a","m","a","-","3",".","3","-","7","0","b","-","v","e","r","s","a","t","i","l","e">>,
              Member("GROQ")),
     LLMModel("[openai] gpt-4.5",
              (* "gpt-4.5-preview" *)
              <<"g","p","t","-","4",".","5","-","p","r","e","v","i","e","w">>,
              Member("OPENAI")),
     LLMModel("[openai] gpt-4o",
              (* "gpt-4o" *)
              <<"g","p","t","-","4","o">>,
              Member("OPENAI")),
     LLMModel("[openai] o1",
              (* "o1" *)
              <<"o","1">>,
              Member("OPENAI")),
     LLMModel("[openai] o3-mini",
              (* "o3-mini" *)
              <<"o","3","-","m","i","n","i">>,
              Member("OPENAI"))
  >>

\* an OpenRouter entry listing the Gemini model under the id the direct
\* Gemini entry already uses
OpenRouterModelsSameId ==
  <<
     LLMModel("[openrouter] gemini-2.5-pro-exp-03-25:free",
              (* "gemini-2.5-pro-exp-03-25" *)
              <<"g","e","m","i","n","i","-","2",".","5","-","p","r","o","-","e","x","p","-","0","3","-","2","5">>,
              Member("OPENROUTER")),
     LLMModel("[openrouter] deepseek-chat-v3-0324:free",
              (* "deepseek/deepseek-chat-v3-0324:free" *)
              <<"d","e","e","p","s","e","e","k","/","d","e","e","p","s","e","e","k","-","c","h","a","t","-","v","3","-","0","3","2","4",":","f","r","e","e">>,
              Member("OPENROUTER"))
  >>

\* the entries of the AVAILABLE_MODELS literal served through OpenRouter
OpenRouterModels ==
  <<
     LLMModel("[openrouter] gemini-2.5-pro-exp-03-25:free",
              (* "google/gemini-2.5-pro-exp-03-25:free" *)
              <<"g","o","o","g","l","e","/","g","e","m","i","n","i","-","2",".","5","-","p","r","o","-","e","x","p","-","0","3","-","2","5",":","f","r","e","e">>,
              Member("OPENROUTER")),
     LLMModel("[openrouter] deepseek-chat-v3-0324:free",
              (* "deepseek/deepseek-chat-v3-0324:free" *)
              <<"d","e","e","p","s","e","e","k","/","d","e","e","p","s","e","e","k","-","c","h","a","t","-","v","3","-","0","3","2","4",":","f","r","e","e">>,
              Member("OPENROUTER"))
  >>

\* the literal list assigned to AVAILABLE_MODELS
CatalogLiteral == DirectModels \o OpenRouterModels

\* [model.to_choice_tuple() for model in AVAILABLE_MODELS]
ChoiceTuples(models) == [i \in 1..Len(models) |-> to_choice_tuple(models[i])]

\* next((model for model in models if model.model_name == model_name), None)
RECURSIVE FirstMatch(_, _, _)
FirstMatch(models, model_name, i) ==
  IF i > Len(models) THEN None
  ELSE IF models[i].model_name = model_name THEN models[i]
  ELSE FirstMatch(models, model_name, i + 1)

\* the first model whose model_name starts with the argument
RECURSIVE FirstPrefixMatch(_, _, _)
FirstPrefixMatch(models, model_name, i) ==
  IF i > Len(models) THEN None
  ELSE IF startswith(models[i].model_name, model_name) THEN models[i]
  ELSE FirstPrefixMatch(models, model_name, i + 1)

get_model_info_prefix(models, model_name) ==
  FirstPrefixMatch(models, model_name, 1)

get_model_info(models, model_name) == FirstMatch(models, model_name, 1)

----------------------------------------------------------------------------
(* The client factory.                                                     *)

\* os.getenv(name) or os.getenv("OPENAI_API_KEY")
os_getenv_fallback(env, name) ==
  IF name \in DOMAIN env /\ Len(env[name]) > 0 THEN Str(env[name])
  ELSE IF "OPENAI_API_KEY" \in DOMAIN env THEN Str(env["OPENAI_API_KEY"])
  ELSE None

\* os.getenv(name): the value, or None when the variable is not set
os_getenv(env, name) ==
  IF name \in DOMAIN env THEN Str(env[name]) ELSE None

\* api_key is None
IsNone(api_key) == api_key.type = "NoneType"

\* not api_key: None and the empty str are falsy
Not(api_key) ==
  \/ api_key.type = "NoneType"
  \/ api_key.type = "str" /\ Len(api_key.chars) = 0

\* a constructor call of a langchain chat client: class and keyword arguments
Client(cls, kwargs) == [type |-> cls, kwargs |-> kwargs]

\* the f-string printed before raising
ApiKeyErrorLine(var) ==
  <<"API Key Error: Please make sure ", var, " is set in your .env file.">>

\* ValueError("<label> API key not found.  Please make sure <var> is set ...")
ValueError(label, var) ==
  [type |-> "ValueError",
   message |-> <<label, " API key not found.  Please make sure ", var,
                 " is set in your .env file.">>]

Raises(exc, line) ==
  [raised |-> TRUE, exc |-> exc, ret |-> None, printed |-> <<line>>]

Returns(value) ==
  [raised |-> FALSE, exc |-> None, ret |-> value, printed |-> <<>>]

\* get_model whose OpenRouter branch still reads the OpenAI key
get_model_shared_key(model_name, model_provider, env) ==
  IF PyEq(model_provider, Member("GROQ")) THEN
    LET api_key == os_getenv(env, "GROQ_API_KEY") IN
    IF Not(api_key)
    THEN Raises(ValueError("Groq", "GROQ_API_KEY"), ApiKeyErrorLine("GROQ_API_KEY"))
    ELSE Returns(Client("ChatGroq", [model |-> model_name, api_key |-> api_key]))
  ELSE IF PyEq(model_provider, Member("OPENAI")) THEN
    LET api_key == os_getenv(env, "OPENAI_API_KEY") IN
    IF Not(api_key)
    THEN Raises(ValueError("OpenAI", "OPENAI_API_KEY"), ApiKeyErrorLine("OPENAI_API_KEY"))
    ELSE Returns(Client("ChatOpenAI", [model |-> model_name, api_key |-> api_key]))
  ELSE IF PyEq(model_provider, Member("ANTHROPIC")) THEN
    LET api_key == os_getenv(env, "ANTHROPIC_API_KEY") IN
    IF Not(api_key)
    THEN Raises(ValueError("Anthropic", "ANTHROPIC_API_KEY"), ApiKeyErrorLine("ANTHROPIC_API_KEY"))
    ELSE Returns(Client("ChatAnthropic", [model |-> model_name, api_key |-> api_key]))
  ELSE IF PyEq(model_provider, Member("DEEPSEEK")) THEN
    LET api_key == os_getenv(env, "DEEPSEEK_API_KEY") IN
    IF Not(api_key)
    THEN Raises(ValueError("DeepSeek", "DEEPSEEK_API_KEY"), ApiKeyErrorLine("DEEPSEEK_API_KEY"))
    ELSE Returns(Client("ChatDeepSeek", [model |-> model_name, api_key |-> api_key]))
  ELSE IF PyEq(model_provider, Member("GEMINI")) THEN
    LET api_key == os_getenv(env, "GOOGLE_API_KEY") IN
    IF Not(api_key)
    THEN Raises(ValueError("Google", "GOOGLE_API_KEY"), ApiKeyErrorLine("GOOGLE_API_KEY"))
    ELSE Returns(Client("ChatGoogleGenerativeAI", [model |-> model_name, api_key |-> api_key]))
  ELSE IF PyEq(model_provider, Member("OPENROUTER")) THEN
    LET api_key == os_getenv(env, "OPENAI_API_KEY") IN
    IF Not(api_key)
    THEN Raises(ValueError("OpenRouter", "OPENROUTER_API_KEY"), ApiKeyErrorLine("OPENROUTER_API_KEY"))
    ELSE Returns(Client("ChatOpenAI", [base_url |-> "https://openrouter.ai/api/v1",
                                       model |-> model_name, api_key |-> api_key]))
  ELSE Returns(None)

\* get_model whose OpenRouter branch passes no base_url
get_model_no_base_url(model_name, model_provider, env) ==
  IF PyEq(model_provider, Member("GROQ")) THEN
    LET api_key == os_getenv(env, "GROQ_API_KEY") IN
    IF Not(api_key)
    THEN Raises(ValueError("Groq", "GROQ_API_KEY"), ApiKeyErrorLine("GROQ_API_KEY"))
    ELSE Returns(Client("ChatGroq", [model |-> model_name, api_key |-> api_key]))
  ELSE IF PyEq(model_provider, Member("OPENAI")) THEN
    LET api_key == os_getenv(env, "OPENAI_API_KEY") IN
    IF Not(api_key)
    THEN Raises(ValueError("OpenAI", "OPENAI_API_KEY"), ApiKeyErrorLine("OPENAI_API_KEY"))
    ELSE Returns(Client("ChatOpenAI", [model |-> model_name, api_key |-> api_key]))
  ELSE IF PyEq(model_provider, Member("ANTHROPIC")) THEN
    LET api_key == os_getenv(env, "ANTHROPIC_API_KEY") IN
    IF Not(api_key)
    THEN Raises(ValueError("Anthropic", "ANTHROPIC_API_KEY"), ApiKeyErrorLine("ANTHROPIC_API_KEY"))
    ELSE Returns(Client("ChatAnthropic", [model |-> model_name, api_key |-> api_key]))
  ELSE IF PyEq(model_provider, Member("DEEPSEEK")) THEN
    LET api_key == os_getenv(env, "DEEPSEEK_API_KEY") IN
    IF Not(api_key)
    THEN Raises(ValueError("DeepSeek", "DEEPSEEK_API_KEY"), ApiKeyErrorLine("DEEPSEEK_API_KEY"))
    ELSE Returns(Client("ChatDeepSeek", [model |-> model_name, api_key |-> api_key]))
  ELSE IF PyEq(model_provider, Member("GEMINI")) THEN
    LET api_key == os_getenv(env, "GOOGLE_API_KEY") IN
    IF Not(api_key)
    THEN Raises(ValueError("Google", "GOOGLE_API_KEY"), ApiKeyErrorLine("GOOGLE_API_KEY"))
    ELSE Returns(Client("ChatGoogleGenerativeAI", [model |-> model_name, api_key |-> api_key]))
  ELSE IF PyEq(model_provider, Member("OPENROUTER")) THEN
    LET api_key == os_getenv(env, "OPENROUTER_API_KEY") IN
    IF Not(api_key)
    THEN Raises(ValueError("OpenRouter", "OPENROUTER_API_KEY"), ApiKeyErrorLine("OPENROUTER_API_KEY"))
    ELSE Returns(Client("ChatOpenAI", [model |-> model_name, api_key |-> api_key]))
  ELSE Returns(None)

get_model(model_name, model_provider, env) ==
  IF PyEq(model_provider, Member("GROQ")) THEN
    LET api_key == os_getenv(env, "GROQ_API_KEY") IN
    IF Not(api_key)
    THEN Raises(ValueError("Groq", "GROQ_API_KEY"), ApiKeyErrorLine("GROQ_API_KEY"))
    ELSE Returns(Client("ChatGroq", [model |-> model_name, api_key |-> api_key]))
  ELSE IF PyEq(model_provider, Member("OPENAI")) THEN
    LET api_key == os_getenv(env, "OPENAI_API_KEY") IN
    IF Not(api_key)
    THEN Raises(ValueError("OpenAI", "OPENAI_API_KEY"), ApiKeyErrorLine("OPENAI_API_KEY"))
    ELSE Returns(Client("ChatOpenAI", [model |-> model_name, api_key |-> api_key]))
  ELSE IF PyEq(model_provider, Member("ANTHROPIC")) THEN
    LET api_key == os_getenv(env, "ANTHROPIC_API_KEY") IN
    IF Not(api_key)
    THEN Raises(ValueError("Anthropic", "ANTHROPIC_API_KEY"), ApiKeyErrorLine("ANTHROPIC_API_KEY"))
    ELSE Returns(Client("ChatAnthropic", [model |-> model_name, api_key |-> api_key]))
  ELSE IF PyEq(model_provider, Member("DEEPSEEK")) THEN
    LET api_key == os_getenv(env, "DEEPSEEK_API_KEY") IN
    IF Not(api_key)
    THEN Raises(ValueError("DeepSeek", "DEEPSEEK_API_KEY"), ApiKeyErrorLine("DEEPSEEK_API_KEY"))
    ELSE Returns(Client("ChatDeepSeek", [model |-> model_name, api_key |-> api_key]))
  ELSE IF PyEq(model_provider, Member("GEMINI")) THEN
    LET api_key == os_getenv(env, "GOOGLE_API_KEY") IN
    IF Not(api_key)
    THEN Raises(ValueError("Google", "GOOGLE_API_KEY"), ApiKeyErrorLine("GOOGLE_API_KEY"))
    ELSE Returns(Client("ChatGoogleGenerativeAI", [model |-> model_name, api_key |-> api_key]))
  ELSE IF PyEq(model_provider, Member("OPENROUTER")) THEN
    LET api_key == os_getenv(env, "OPENROUTER_API_KEY") IN
    IF Not(api_key)
    THEN Raises(ValueError("OpenRouter", "OPENROUTER_API_KEY"), ApiKeyErrorLine("OPENROUTER_API_KEY"))
    ELSE Returns(Client("ChatOpenAI", [base_url |-> "https://openrouter.ai/api/v1",
                                       model |-> model_name, api_key |-> api_key]))
  ELSE Returns(None)

----------------------------------------------------------------------------
(* Inputs.                                                                 *)

\* the environment variables the factory reads
EnvNames ==
  {"ANTHROPIC_API_KEY", "DEEPSEEK_API_KEY", "GOOGLE_API_KEY",
   "GROQ_API_KEY", "OPENAI_API_KEY", "OPENROUTER_API_KEY"}

\* values a variable is set to: the empty string and a key of KeyLen characters
KeyValues == {<<>>, [i \in 1..KeyLen |-> "k"]}

\* the provider argument: every member, a str equal to a member's value,
\* strs equal to no member's value, and None
ProviderArgs ==
  {Member(n) : n \in MemberNames}
    \cup {PlainStr("Groq"), PlainStr("Mistral"), None}

\* model_name arguments of get_model: one in the catalog ("gpt-4o"), one
\* not ("gpt-5")
FactoryNames == {<<"g","p","t","-","4","o">>, <<"g","p","t","-","5">>}

CatalogNames == {CatalogLiteral[i].model_name : i \in 1..Len(CatalogLiteral)}

UpperOf(c) ==
  CASE c = "c" -> "C" [] c = "d" -> "D" [] c = "g" -> "G"
    [] c = "l" -> "L" [] c = "o" -> "O" [] OTHER -> c

Capitalized(s) == IF s = <<>> THEN s ELSE <<UpperOf(Head(s))>> \o Tail(s)

DropFront(s, k) == IF k >= Len(s) THEN <<>> ELSE SubSeq(s, k + 1, Len(s))

DropBack(s, k) == IF k >= Len(s) THEN <<>> ELSE SubSeq(s, 1, Len(s) - k)

Padded(s, k) == s \o [i \in 1..k |-> " "]

\* strings around the two family prefixes
PrefixProbes ==
  {<<"d","e","e","p","s","e","e","k">>, <<"g","e","m","i","n","i">>,
   <<"D","E","E","P","S","E","E","K">>, <<"G","e","m","i","n","i">>,
   <<"x","g","e","m","i","n","i">>, <<"g","o","o","g","l","e","/">>,
   <<"n","o","n","e","x","i","s","t","e","n","t","-","i","d">>}

\* a set of names with its near misses: up to MaxTrim characters dropped
\* from the front or the back, or that many spaces added
Variants(S) ==
  S \cup UNION {{DropFront(n, k), DropBack(n, k), Padded(n, k)} :
                  n \in S, k \in 1..MaxTrim}

\* model_name arguments of get_model_info: the catalog's names, near misses
\* of them, and the probes
NameInputs ==
  Variants(CatalogNames)
    \cup {Capitalized(n) : n \in CatalogNames}
    \cup PrefixProbes
    \cup FactoryNames

\* descriptors the LLMModel methods are called on: the catalog's, and the
\* catalog's names and the probes' near misses under every provider
DescriptorInputs ==
  {CatalogLiteral[i] : i \in 1..Len(CatalogLiteral)}
    \cup {LLMModel("x", n, Member(p)) :
            n \in CatalogNames \cup Variants(PrefixProbes), p \in MemberNames}

----------------------------------------------------------------------------
(* The state machine.                                                      *)

\* state after the module is imported
Init ==
  /\ AVAILABLE_MODELS = CatalogLiteral
  /\ LLM_ORDER = ChoiceTuples(CatalogLiteral)
  /\ environ = [v \in {} |-> <<>>]
  /\ result = [op |-> "import"]

\* os.environ[var] = value  (load_dotenv, or the caller)
SetEnv ==
  \E var \in EnvNames, value \in KeyValues :
    /\ environ' = [v \in DOMAIN environ \cup {var} |->
                     IF v = var THEN value ELSE environ[v]]
    /\ UNCHANGED <<AVAILABLE_MODELS, LLM_ORDER, result>>

\* del os.environ[var]
DelEnv ==
  \E var \in DOMAIN environ :
    /\ environ' = [v \in DOMAIN environ \ {var} |-> environ[v]]
    /\ UNCHANGED <<AVAILABLE_MODELS, LLM_ORDER, result>>

\* what a call leaves behind: its arguments and its outcome
Observed(model_name, model_provider, env) ==
  [op |-> "get_model",
   model_name |-> model_name, model_provider |-> model_provider,
   out |-> get_model(model_name, model_provider, env)]

\* a call get_model(model_name, model_provider)
GetModel ==
  \E model_name \in FactoryNames, model_provider \in ProviderArgs :
    /\ result' = Observed(model_name, model_provider, environ)
    /\ UNCHANGED <<AVAILABLE_MODELS, LLM_ORDER, environ>>

\* a call get_model_info(model_name) with model_name drawn from names
GetModelInfoFor(names) ==
  \E model_name \in names :
    /\ result' = [op |-> "get_model_info", model_name |-> model_name,
                  out |-> Returns(get_model_info(AVAILABLE_MODELS, model_name))]
    /\ UNCHANGED <<AVAILABLE_MODELS, LLM_ORDER, environ>>

\* the lookup of any name
GetModelInfo == GetModelInfoFor(NameInputs)

\* the lookup a caller makes of the name it hands to the factory
GetModelInfoOfChoice == GetModelInfoFor(FactoryNames)

\* a call self.to_choice_tuple()
ToChoiceTuple ==
  \E self \in DescriptorInputs :
    /\ result' = [op |-> "to_choice_tuple", self |-> self,
                  out |-> to_choice_tuple(self)]
    /\ UNCHANGED <<AVAILABLE_MODELS, LLM_ORDER, environ>>

\* a call self.is_deepseek()
IsDeepseek ==
  \E self \in DescriptorInputs :
    /\ result' = [op |-> "is_deepseek", self |-> self, out |-> is_deepseek(self)]
    /\ UNCHANGED <<AVAILABLE_MODELS, LLM_ORDER, environ>>

\* a call self.is_gemini()
IsGemini ==
  \E self \in DescriptorInputs :
    /\ result' = [op |-> "is_gemini", self |-> self, out |-> is_gemini(self)]
    /\ UNCHANGED <<AVAILABLE_MODELS, LLM_ORDER, environ>>

\* a call self.has_json_mode()
HasJsonMode ==
  \E self \in DescriptorInputs :
    /\ result' = [op |-> "has_json_mode", self |-> self,
                  out |-> has_json_mode(self)]
    /\ UNCHANGED <<AVAILABLE_MODELS, LLM_ORDER, environ>>

\* the factory and the caller's lookup under a changing environment
Next == SetEnv \/ DelEnv \/ GetModel \/ GetModelInfoOfChoice

Spec == Init /\ [][Next]_vars

\* the catalog operations and the descriptor methods
NextCatalog ==
  GetModelInfo \/ ToChoiceTuple \/ IsDeepseek \/ IsGemini \/ HasJsonMode

SpecCatalog == Init /\ [][NextCatalog]_vars

----------------------------------------------------------------------------
(* Vocabulary of the properties, stated independently of the operators     *)
(* above.                                                                  *)

\* the provider table of the specification: member |-> environment variable
MappedVariable ==
  [ANTHROPIC  |-> "ANTHROPIC_API_KEY",
   DEEPSEEK   |-> "DEEPSEEK_API_KEY",
   GEMINI     |-> "GOOGLE_API_KEY",
   GROQ       |-> "GROQ_API_KEY",
   OPENAI     |-> "OPENAI_API_KEY",
   OPENROUTER |-> "OPENROUTER_API_KEY"]

\* the client kind of each provider
ClientKind ==
  [ANTHROPIC  |-> "ChatAnthropic",
   DEEPSEEK   |-> "ChatDeepSeek",
   GEMINI     |-> "ChatGoogleGenerativeAI",
   GROQ       |-> "ChatGroq",
   OPENAI     |-> "ChatOpenAI",
   OPENROUTER |-> "ChatOpenAI"]

\* the variable is unset or holds the empty string
Missing(env, var) == var \notin DOMAIN env \/ env[var] = <<>>

\* the environment with nothing set
EmptyEnv == [v \in {} |-> <<>>]

\* env with one variable set to value
WithVar(env, var, value) ==
  [v \in DOMAIN env \cup {var} |-> IF v = var THEN value ELSE env[v]]

\* env with one variable removed
WithoutVar(env, var) == [v \in DOMAIN env \ {var} |-> env[v]]

\* the provider argument is one of the six tags
IsTag(x) ==
  \/ x.type = "ModelProvider"
  \/ x.type = "str" /\ \E n \in MemberNames : ModelProvider[n] = x.s

\* the text mentions the word
Mentions(message, word) == \E i \in 1..Len(message) : message[i] = word

\* s begins with p, character for character
HasPrefix(s, p) == Len(s) >= Len(p) /\ SubSeq(s, 1, Len(p)) = p

Deepseek == <<"d","e","e","p","s","e","e","k">>

Gemini == <<"g","e","m","i","n","i">>

\* the part of a model name after its vendor prefix "<vendor>/"
RECURSIVE UnderlyingId(_)
UnderlyingId(s) ==
  IF s = <<>> THEN <<>>
  ELSE IF Head(s) = "/" THEN Tail(s)
  ELSE UnderlyingId(Tail(s))

\* this step is a call of get_model made in the environment environ
GetModelStep == result' # result /\ result'.op = "get_model"

----------------------------------------------------------------------------
(* C1 *)

----------------------------------------------------------------------------
(* C2 *)

\* C2: a get_model call whose provider argument is none of the six tags
\* fails with an UnsupportedProvider error; it does not return None.
C2_UnsupportedProviderFails ==
  (result.op = "get_model" /\ ~ IsTag(result.model_provider))
    => /\ result.out.raised
       /\ result.out.exc.type = "UnsupportedProvider"
       /\ result.out.ret = None

----------------------------------------------------------------------------
(* C3 *)

\* C3: a get_model call for any of the six providers, made while the
\* provider's mapped variable holds a non-empty value, returns a client of
\* the provider's kind, configured with the model_name argument unchanged
\* and with the value of that variable as its key.
C3_CredentialSuccess ==
  [][GetModelStep =>
       \A p \in MemberNames :
         (result'.model_provider = Member(p)
            /\ ~ Missing(environ, MappedVariable[p]))
         => /\ ~ result'.out.raised
            /\ result'.out.ret.type = ClientKind[p]
            /\ result'.out.ret.kwargs.model = result'.model_name
            /\ result'.out.ret.kwargs.api_key.type = "str"
            /\ result'.out.ret.kwargs.api_key.chars
                 = environ[MappedVariable[p]]]_vars

\* an OPENROUTER call has just returned a client while OPENROUTER_API_KEY
\* is set and OPENAI_API_KEY is not
C3_Witness ==
  /\ result.op = "get_model"
  /\ result.model_provider = Member("OPENROUTER")
  /\ ~ result.out.raised
  /\ result.out.ret.type = "ChatOpenAI"
  /\ ~ Missing(environ, "OPENROUTER_API_KEY")
  /\ Missing(environ, "OPENAI_API_KEY")

----------------------------------------------------------------------------
(* C4 *)

\* C4: a client returned for OPENROUTER has the client kind returned for
\* OPENAI and the base_url https://openrouter.ai/api/v1; a client returned
\* for any other provider is given no base_url.
C4_OpenRouterBase ==
  (result.op = "get_model" /\ ~ result.out.raised
     /\ result.out.ret.type # "NoneType")
    => IF result.model_provider = Member("OPENROUTER")
       THEN /\ result.out.ret.type
                 = get_model(result.model_name, Member("OPENAI"),
                             WithVar(EmptyEnv, "OPENAI_API_KEY", <<"k">>)).ret.type
            /\ "base_url" \in DOMAIN result.out.ret.kwargs
            /\ result.out.ret.kwargs.base_url = "https://openrouter.ai/api/v1"
       ELSE "base_url" \notin DOMAIN result.out.ret.kwargs

\* an OPENROUTER call has returned a client
C4_Witness ==
  /\ result.op = "get_model"
  /\ result.model_provider = Member("OPENROUTER")
  /\ ~ result.out.raised
  /\ result.out.ret.type = "ChatOpenAI"

----------------------------------------------------------------------------
(* C5 *)

\* C5: get_model_info never raises; called with the model_name of a catalog
\* descriptor it returns that descriptor, equal in all three fields; called
\* with any other string it returns None.
C5_LookupCorrect ==
  result.op = "get_model_info"
    => /\ ~ result.out.raised
       /\ \A i \in 1..Len(AVAILABLE_MODELS) :
            AVAILABLE_MODELS[i].model_name = result.model_name
              => /\ result.out.ret.type = "LLMModel"
                 /\ result.out.ret.display_name = AVAILABLE_MODELS[i].display_name
                 /\ result.out.ret.model_name = AVAILABLE_MODELS[i].model_name
                 /\ result.out.ret.provider = AVAILABLE_MODELS[i].provider
       /\ (\A i \in 1..Len(AVAILABLE_MODELS) :
             AVAILABLE_MODELS[i].model_name # result.model_name)
            => result.out.ret = None

\* the lookup of "gpt-4", a proper prefix of two catalog names, has
\* returned None
C5_Witness ==
  /\ result.op = "get_model_info"
  /\ result.model_name = <<"g","p","t","-","4">>
  /\ result.out.ret = None

----------------------------------------------------------------------------
(* C6 *)

\* C6: every OPENROUTER descriptor of the catalog whose underlying model id
\* begins with "deepseek" (with "gemini") is classified as that family:
\* is_deepseek() (is_gemini()) is true and has_json_mode() is false.
C6_OpenRouterFamilies ==
  \A i \in 1..Len(AVAILABLE_MODELS) :
    (result.op \in {"is_deepseek", "is_gemini", "has_json_mode"}
       /\ result.self = AVAILABLE_MODELS[i]
       /\ result.self.provider = Member("OPENROUTER"))
    => /\ (result.op = "is_deepseek"
             /\ HasPrefix(UnderlyingId(result.self.model_name), Deepseek))
            => result.out = TRUE
       /\ (result.op = "is_gemini"
             /\ HasPrefix(UnderlyingId(result.self.model_name), Gemini))
            => result.out = TRUE
       /\ (result.op = "has_json_mode"
             /\ \/ HasPrefix(UnderlyingId(result.self.model_name), Deepseek)
                \/ HasPrefix(UnderlyingId(result.self.model_name), Gemini))
            => result.out = FALSE

----------------------------------------------------------------------------
(* C7 *)

\* C7: for any descriptor, is_deepseek() is true iff model_name begins with
\* "deepseek", is_gemini() is true iff it begins with "gemini", the two are
\* never both true, has_json_mode() is the negation of their disjunction,
\* and none of the three changes with the provider field.
C7_FamilyFlags ==
  result.op \in {"is_deepseek", "is_gemini", "has_json_mode"}
    => LET self == result.self
           others == {[self EXCEPT !.provider = Member(p)] : p \in MemberNames}
       IN /\ result.op = "is_deepseek"
               => /\ result.out = HasPrefix(self.model_name, Deepseek)
                  /\ \A d \in others : is_deepseek(d) = result.out
                  /\ result.out => ~ is_gemini(self)
          /\ result.op = "is_gemini"
               => /\ result.out = HasPrefix(self.model_name, Gemini)
                  /\ \A d \in others : is_gemini(d) = result.out
                  /\ result.out => ~ is_deepseek(self)
          /\ result.op = "has_json_mode"
               => /\ result.out = ~ (is_deepseek(self) \/ is_gemini(self))
                  /\ result.out = ~ (\/ HasPrefix(self.model_name, Deepseek)
                                     \/ HasPrefix(self.model_name, Gemini))
                  /\ \A d \in others : has_json_mode(d) = result.out

\* is_gemini() has answered false for the OPENROUTER catalog entry
\* "google/gemini-2.5-pro-exp-03-25:free", whose name contains "gemini"
\* but does not begin with it
C7_Witness ==
  /\ result.op = "is_gemini"
  /\ result.self = AVAILABLE_MODELS[13]
  /\ result.self.provider = Member("OPENROUTER")
  /\ HasPrefix(UnderlyingId(result.self.model_name), Gemini)
  /\ result.out = FALSE

----------------------------------------------------------------------------
(* C8 *)

\* C8: no two entries of AVAILABLE_MODELS have the same model_name, and the
\* provider of every entry is one of the six ModelProvider members.
C8_CatalogWellFormed ==
  /\ \A i, j \in 1..Len(AVAILABLE_MODELS) :
       i # j => AVAILABLE_MODELS[i].model_name # AVAILABLE_MODELS[j].model_name
  /\ \A i \in 1..Len(AVAILABLE_MODELS) :
       /\ AVAILABLE_MODELS[i].provider.type = "ModelProvider"
       /\ AVAILABLE_MODELS[i].provider.name
            \in {"ANTHROPIC", "DEEPSEEK", "GEMINI", "GROQ", "OPENAI", "OPENROUTER"}

\* the lookup of "gemini-2.5-pro-exp-03-25" has returned the GEMINI entry,
\* in a catalog that also lists that model under OPENROUTER
C8_Witness ==
  /\ result.op = "get_model_info"
  /\ result.out.ret.type = "LLMModel"
  /\ result.out.ret.provider = Member("GEMINI")
  /\ \E i \in 1..Len(AVAILABLE_MODELS) :
       /\ AVAILABLE_MODELS[i].provider = Member("OPENROUTER")
       /\ UnderlyingId(AVAILABLE_MODELS[i].model_name)
            = result.model_name \o <<":","f","r","e","e">>

----------------------------------------------------------------------------
(* C9 *)

\* C9: LLM_ORDER is as long as AVAILABLE_MODELS, its i-th element is the
\* triple (display_name, model_name, provider value) of the i-th
\* descriptor, AVAILABLE_MODELS is the literal table in its written order,
\* and this stays so across get_model_info and get_model calls.
C9_PresentationOrder ==
  /\ Len(LLM_ORDER) = Len(AVAILABLE_MODELS)
  /\ \A i \in 1..Len(AVAILABLE_MODELS) :
       /\ Len(LLM_ORDER[i]) = 3
       /\ LLM_ORDER[i][1] = AVAILABLE_MODELS[i].display_name
       /\ LLM_ORDER[i][2] = AVAILABLE_MODELS[i].model_name
       /\ LLM_ORDER[i][3] = ModelProvider[AVAILABLE_MODELS[i].provider.name]
  /\ Len(AVAILABLE_MODELS) = 14
  /\ LLM_ORDER[1] = <<"[anthropic] claude-3.5-haiku",
                      <<"c","l","a","u","d","e","-","3","-","5","-","h","a","i","k","u","-","l","a","t","e","s","t">>,
                      "Anthropic">>
  /\ LLM_ORDER[4][3] = "DeepSeek"
  /\ LLM_ORDER[10][2] = <<"g","p","t","-","4","o">>
  /\ LLM_ORDER[14][1] = "[openrouter] deepseek-chat-v3-0324:free"
  /\ AVAILABLE_MODELS = DirectModels \o OpenRouterModels

\* a get_model call has returned a client, after the environment was
\* changed, and the last presentation triple is OpenRouter's
C9_Witness ==
  /\ result.op = "get_model"
  /\ ~ result.out.raised
  /\ result.out.ret.type = "ChatGroq"
  /\ LLM_ORDER[14][3] = "OpenRouter"

----------------------------------------------------------------------------
(* C10 *)

\* C10: whether a get_model call with a recognized provider fails or
\* returns a client is decided by whether the provider's own variable is
\* non-empty when the call is made: the same call made with any other
\* variable set differently or removed, or with another model_name, has the
\* same outcome.
C10_OwnVariableDecides ==
  [][GetModelStep =>
       \A p \in MemberNames :
         result'.model_provider = Member(p)
         => /\ result'.out.raised <=> Missing(environ, MappedVariable[p])
            /\ \A var \in EnvNames \ {MappedVariable[p]}, n \in FactoryNames :
                 /\ \A value \in KeyValues :
                      get_model(n, Member(p), WithVar(environ, var, value)).raised
                        = result'.out.raised
                 /\ get_model(n, Member(p), WithoutVar(environ, var)).raised
                      = result'.out.raised]_vars

\* an OPENROUTER call for a model_name outside the catalog has just failed
\* while OPENAI_API_KEY is set and OPENROUTER_API_KEY is not
C10_Witness ==
  /\ result.op = "get_model"
  /\ result.model_provider = Member("OPENROUTER")
  /\ result.model_name = <<"g","p","t","-","5">>
  /\ result.out.raised
  /\ ~ Missing(environ, "OPENAI_API_KEY")
  /\ "OPENROUTER_API_KEY" \notin DOMAIN environ

=============================================================================
